---- MODULE Spec2Model ----
(***************************************************************************)
(* Model-parallel layers of mpu/layers.py: VocabParallelEmbedding,         *)
(* ParallelEmbedding, ColumnParallelLinear, RowParallelLinear and          *)
(* ArcfaceColumnParallelLinear, one process per model-parallel rank.       *)
(*                                                                         *)
(* Tensors are sequences: a vector is a sequence of integers, a matrix a   *)
(* sequence of rows.  Real numbers are fixed-point integers: the cosine    *)
(* computed by the margin head is held in units of 1/ONE.                  *)
(***************************************************************************)
EXTENDS Integers, Sequences, FiniteSets, TLC

VARIABLES
    cfg,      \* process group and constructor arguments, fixed for a run
    pc,       \* per rank: "new", "ready", "run", "wait", "error"
    todo,     \* per rank: layers still to construct
    err,      \* per rank: the error construction raised, "" if none
    attr,     \* per rank, per layer: integer attributes set by __init__
    heap,     \* per rank: tensors (parameters, buffers, arguments, locals)
    prog,     \* per rank: layers whose forward is still to run in this call
    at,       \* per rank: resume point inside the running forward
    sent,     \* per rank: the collective the rank is blocked in
    recv,     \* per rank: result of the last completed collective
    calls,    \* per rank: collectives issued so far, in order
    outs,     \* per rank: values returned by the forward calls so far
    updated,  \* whether the optimizer has stepped
    fed       \* whether the caller has handed the ranks their input batch

vars == <<cfg, pc, todo, err, attr, heap, prog, at, sent, recv, calls, outs, updated, fed>>

-----------------------------------------------------------------------------
(* Bounds of the model *)

MaxWorld == 2       \* world sizes 1..MaxWorld
MaxDim == 4         \* size of the partitioned dimension, 1..MaxDim
MaxStride == 2      \* strides 1..MaxStride
MaxCalls == 2       \* forward calls per rank
FixedDim == 2       \* size of the dimension that is not partitioned
Seeds == {0, 1}     \* shared generator states for init_method
InputSel == {1, 2}  \* selectors of the input values

NONE == <<>>

-----------------------------------------------------------------------------
(* Tensor primitives of the external tensor engine *)

Min(a, b) == IF a < b THEN a ELSE b
Max(a, b) == IF a > b THEN a ELSE b

RECURSIVE SumSeq(_)
SumSeq(s) == IF s = <<>> THEN 0 ELSE Head(s) + SumSeq(Tail(s))

Dot(u, v) == SumSeq([j \in 1..Len(u) |-> u[j] * v[j]])

Zeros(n) == [j \in 1..n |-> 0]

\* torch.nn.functional.linear(x, w, b): x @ w^T + b, b may be None
Linear(x, w, b) ==
    [i \in 1..Len(x) |->
        [o \in 1..Len(w) |-> Dot(x[i], w[o]) + (IF b = NONE THEN 0 ELSE b[o])]]

\* matrix + vector, broadcast over rows
AddBias(y, b) == [i \in 1..Len(y) |-> [o \in 1..Len(y[i]) |-> y[i][o] + b[o]]]

\* torch.nn.functional.embedding(ids, weight): row ids[i] of weight (0-based ids)
Embedding(ids, weight) == [i \in 1..Len(ids) |-> weight[ids[i] + 1]]

\* size of tensor t along dim (matrices only)
Size(t, dim) == IF dim = 0 THEN Len(t) ELSE IF Len(t) = 0 THEN 0 ELSE Len(t[1])

\* t[a..b] along dim, 1-based inclusive
Slice(t, a, b, dim) ==
    IF dim = 0 THEN SubSeq(t, a, b) ELSE [i \in 1..Len(t) |-> SubSeq(t[i], a, b)]

\* torch.split(t, size, dim): chunks of `size`, the last one possibly smaller
Split(t, size, dim) ==
    LET n == Size(t, dim)
        k == (n + size - 1) \div size
    IN [c \in 1..k |-> Slice(t, (c - 1) * size + 1, Min(c * size, n), dim)]

\* a slip in line 55: list[start*n : (start+1)*n], a contiguous run of chunks
StridedSelect_contiguous(list, start, step) ==
    LET cnt == Len(list) \div step
    IN [k \in 1..cnt |-> list[start * cnt + k]]

\* list[start::step] of Python, start 0-based
StridedSelect(list, start, step) ==
    LET cnt == IF Len(list) > start THEN (Len(list) - start + step - 1) \div step ELSE 0
    IN [k \in 1..cnt |-> list[start + (k - 1) * step + 1]]

\* torch.cat(list, dim) of a non-empty list of matrices
RECURSIVE Cat(_, _)
Cat(list, dim) ==
    IF Len(list) = 1 THEN list[1]
    ELSE LET rest == Cat(Tail(list), dim)
         IN IF dim = 0 THEN list[1] \o rest
            ELSE [i \in 1..Len(rest) |-> list[1][i] \o rest[i]]

\* concatenation of a list of vectors
RECURSIVE CatVec(_)
CatVec(list) == IF list = <<>> THEN <<>> ELSE Head(list) \o CatVec(Tail(list))

\* element-wise sum of a non-empty list of matrices
RECURSIVE SumMat(_)
SumMat(list) ==
    IF Len(list) = 1 THEN list[1]
    ELSE LET rest == SumMat(Tail(list))
         IN [i \in 1..Len(rest) |-> [j \in 1..Len(rest[i]) |-> list[1][i][j] + rest[i][j]]]

-----------------------------------------------------------------------------
(* init_method: fills a tensor from the shared generator state `seed`.     *)
(* Deterministic given the seed, so every rank builds the same master.     *)

InitTable == <<3, 4, -4, 3, 5, 0, 0, -5, -3, -4, 4, -3>>

InitMethod(seed, rows, cols) ==
    [i \in 1..rows |->
        [j \in 1..cols |->
            InitTable[((2 * seed + (i - 1) * cols + (j - 1)) % Len(InitTable)) + 1]]]

-----------------------------------------------------------------------------
(* mpu/utils.py *)

\* divide(numerator, denominator): exact quotient, or ConfigurationError
divide(numerator, denominator) ==
    IF numerator % denominator = 0
    THEN [ok |-> TRUE, q |-> numerator \div denominator]
    ELSE [ok |-> FALSE, q |-> 0]

\* VocabUtility.vocab_range_from_per_partition_vocab_size
vocab_range_from_per_partition_vocab_size(per_partition_vocab_size, rank, world_size) ==
    LET index_f == rank * per_partition_vocab_size
    IN [ok |-> TRUE, first |-> index_f, last |-> index_f + per_partition_vocab_size]

\* VocabUtility.vocab_range_from_global_vocab_size
vocab_range_from_global_vocab_size(global_vocab_size, rank, world_size) ==
    LET d == divide(global_vocab_size, world_size)
    IN IF d.ok
       THEN vocab_range_from_per_partition_vocab_size(d.q, rank, world_size)
       ELSE [ok |-> FALSE, first |-> 0, last |-> 0]

\* split_tensor_along_last_dim(t, num_partitions): the list scatter indexes by rank
split_tensor_along_last_dim(t, num_partitions) ==
    LET last_dim_size == Size(t, 1) \div num_partitions
    IN Split(t, last_dim_size, 1)

-----------------------------------------------------------------------------
(* _initialize_affine_weight, lines 29-61.  `shape` is the shape of the    *)
(* allocated local shard; the result carries the shard as it is left.      *)

\* a slip in line 55: the chunks of the mirrored rank
my_weight_list_mirrored(weight_list, rank, world_size) ==
    StridedSelect(weight_list, world_size - 1 - rank, world_size)

\* weight_list[rank::world_size], line 55
my_weight_list(weight_list, rank, world_size) ==
    StridedSelect(weight_list, rank, world_size)

_initialize_affine_weight(shape, output_size, input_size, per_partition_size, partition_dim, seed, stride, rank, world_size) ==
    IF world_size = 1
    THEN [status |-> "ok", weight |-> InitMethod(seed, shape[1], shape[2])]
    ELSE LET master_weight == InitMethod(seed, output_size, input_size)
             d == divide(per_partition_size, stride)
             weight_list == Split(master_weight, d.q, partition_dim)
             mine == my_weight_list(weight_list, rank, world_size)
         IN IF ~d.ok THEN [status |-> "ConfigurationError", weight |-> NONE]
            ELSE IF mine = <<>> THEN [status |-> "RuntimeError", weight |-> NONE]
            \* torch.cat(..., out=weight) resizes weight to the concatenation
            ELSE [status |-> "ok", weight |-> Cat(mine, partition_dim)]

-----------------------------------------------------------------------------
(* Fixed-point arithmetic of the margin head *)

ONE == 10 * 10

Isqrt(n) == CHOOSE q \in 0..ONE : q * q <= n /\ (q + 1) * (q + 1) > n

\* margin constants for the default m = 0.50, lines 352-355, in units of 1/ONE
cos_m == (88 * ONE) \div 100          \* math.cos(m)
sin_m == (48 * ONE) \div 100          \* math.sin(m)
mm == sin_m \div 2                    \* self.sin_m * m
threshold == 0 - cos_m                \* math.cos(math.pi - m)
scalar == 30                          \* s = 30.0

\* F.normalize(w): each row divided by max(its 2-norm, eps)
Normalize(w) ==
    [i \in 1..Len(w) |->
        LET norm == Isqrt(Dot(w[i], w[i]))
        IN [j \in 1..Len(w[i]) |-> IF norm = 0 THEN 0 ELSE (w[i][j] * ONE) \div norm]]

\* t.clamp(-1, 1)
Clamp(t) == [i \in 1..Len(t) |-> [j \in 1..Len(t[i]) |-> Max(0 - ONE, Min(ONE, t[i][j]))]]

-----------------------------------------------------------------------------
(* Constructors.  Each returns what __init__ leaves behind: the status,    *)
(* the shape of the allocated shard (NONE if __init__ raised before the    *)
(* allocation), the integer attributes and the parameters.                 *)

Failed(status, shape, per) ==
    [status |-> status, alloc |-> shape, per_partition |-> per,
     first |-> 0, last |-> 0, weight |-> NONE, bias |-> NONE]

\* VocabParallelEmbedding.__init__, lines 74-102
VocabParallelEmbedding_init(num_embeddings, embedding_dim, seed, rank, world_size) ==
    LET range == vocab_range_from_global_vocab_size(num_embeddings, rank, world_size)
        num_embeddings_per_partition == range.last - range.first
        shape == <<num_embeddings_per_partition, embedding_dim>>
        aff == _initialize_affine_weight(shape, num_embeddings, embedding_dim,
                   num_embeddings_per_partition, 0, seed, 1, rank, world_size)
    IN IF ~range.ok THEN Failed("ConfigurationError", NONE, 0)
       ELSE [status |-> aff.status, alloc |-> shape,
             per_partition |-> num_embeddings_per_partition,
             first |-> range.first, last |-> range.last,
             weight |-> aff.weight, bias |-> NONE]

\* ParallelEmbedding.__init__, lines 133-160
ParallelEmbedding_init(num_embeddings, embedding_dim, seed, rank, world_size) ==
    LET d == divide(embedding_dim, world_size)
        shape == <<num_embeddings, d.q>>
        aff == _initialize_affine_weight(shape, num_embeddings, embedding_dim,
                   d.q, 1, seed, 1, rank, world_size)
    IN IF ~d.ok THEN Failed("ConfigurationError", NONE, 0)
       ELSE [status |-> aff.status, alloc |-> shape, per_partition |-> d.q,
             first |-> 0, last |-> 0, weight |-> aff.weight, bias |-> NONE]

\* a slip in line 204: a quotient rounded up in place of divide
ColumnParallelLinear_init_ceil(input_size, output_size, seed, stride, rank, world_size) ==
    LET q == (output_size + world_size - 1) \div world_size
        shape == <<q, input_size>>
        aff == _initialize_affine_weight(shape, output_size, input_size,
                   q, 0, seed, stride, rank, world_size)
    IN [status |-> aff.status, alloc |-> shape, per_partition |-> q,
        first |-> 0, last |-> 0, weight |-> aff.weight, bias |-> Zeros(q)]

\* ColumnParallelLinear.__init__, lines 192-225 (bias=True)
ColumnParallelLinear_init(input_size, output_size, seed, stride, rank, world_size) ==
    LET d == divide(output_size, world_size)
        shape == <<d.q, input_size>>
        aff == _initialize_affine_weight(shape, output_size, input_size,
                   d.q, 0, seed, stride, rank, world_size)
    IN IF ~d.ok THEN Failed("ConfigurationError", NONE, 0)
       ELSE [status |-> aff.status, alloc |-> shape, per_partition |-> d.q,
             first |-> 0, last |-> 0, weight |-> aff.weight, bias |-> Zeros(d.q)]

\* a slip in line 298: the stride not passed on
RowParallelLinear_init_stride1(input_size, output_size, seed, stride, rank, world_size) ==
    LET d == divide(input_size, world_size)
        shape == <<output_size, d.q>>
        aff == _initialize_affine_weight(shape, output_size, input_size,
                   d.q, 1, seed, 1, rank, world_size)
    IN IF ~d.ok THEN Failed("ConfigurationError", NONE, 0)
       ELSE [status |-> aff.status, alloc |-> shape, per_partition |-> d.q,
             first |-> 0, last |-> 0, weight |-> aff.weight, bias |-> Zeros(output_size)]

\* RowParallelLinear.__init__, lines 266-298 (bias=True)
RowParallelLinear_init(input_size, output_size, seed, stride, rank, world_size) ==
    LET d == divide(input_size, world_size)
        shape == <<output_size, d.q>>
        aff == _initialize_affine_weight(shape, output_size, input_size,
                   d.q, 1, seed, stride, rank, world_size)
    IN IF ~d.ok THEN Failed("ConfigurationError", NONE, 0)
       ELSE [status |-> aff.status, alloc |-> shape, per_partition |-> d.q,
             first |-> 0, last |-> 0, weight |-> aff.weight, bias |-> Zeros(output_size)]

\* a slip in line 367: the global size passed as the per-partition size
ArcfaceVocabRange_global(output_classs_size, rank, world_size) ==
    vocab_range_from_per_partition_vocab_size(output_classs_size, rank, world_size)

\* the class range of ArcfaceColumnParallelLinear, lines 360-367
ArcfaceVocabRange(output_classs_size, rank, world_size) ==
    LET d == divide(output_classs_size, world_size)
    IN IF d.ok THEN vocab_range_from_per_partition_vocab_size(d.q, rank, world_size)
       ELSE [ok |-> FALSE, first |-> 0, last |-> 0]

\* ArcfaceColumnParallelLinear.__init__, lines 336-387 (bias=False)
ArcfaceColumnParallelLinear_init(embedding_size, output_classs_size, seed, stride, rank, world_size) ==
    LET d == divide(output_classs_size, world_size)
        range == ArcfaceVocabRange(output_classs_size, rank, world_size)
        shape == <<d.q, embedding_size>>
        aff == _initialize_affine_weight(shape, output_classs_size, embedding_size,
                   d.q, 0, seed, stride, rank, world_size)
    IN IF ~d.ok THEN Failed("ConfigurationError", NONE, 0)
       ELSE [status |-> aff.status, alloc |-> shape, per_partition |-> d.q,
             first |-> range.first, last |-> range.last,
             weight |-> aff.weight, bias |-> NONE]

-----------------------------------------------------------------------------
(* The process group: one process per rank, all running the same program   *)

LayerKinds == {"vocab", "pemb", "col", "row", "arc", "affine"}

Ranks == 0..(cfg.world_size - 1)

\* the layers a configuration constructs and runs, in call order; "mlp" is a
\* ColumnParallelLinear(gather_output=False) feeding a
\* RowParallelLinear(input_is_parallel=True)
Chain(layer) == IF layer = "mlp" THEN <<"col", "row">> ELSE <<layer>>

gather_output == IF cfg.layer = "mlp" THEN FALSE ELSE cfg.flag
input_is_parallel == IF cfg.layer = "mlp" THEN TRUE ELSE cfg.flag

Persistent ==
    {"input_", "input_labels", "weight", "vocab.weight", "pemb.weight", "col.weight",
     "col.bias", "row.weight", "row.bias", "arc.weight", "arc.bias",
     "arc.cos_m", "arc.sin_m", "arc.mm", "arc.threshold"}

Locals ==
    {"ret", "input_parallel", "masked_input", "output_parallel", "input_embedding",
     "gathered_labels", "masked_valid_label", "cos_theta", "cos_theta_m"}

Slots == Persistent \cup Locals

Unbuilt == [per_partition |-> 0, first |-> 0, last |-> 0, alloc |-> NONE]

NoMsg == [op |-> "", data |-> NONE]

Put(h, slot, value) == [h EXCEPT ![slot] = value]

\* input patterns handed to forward
XVal(sel, j) == j + sel - 1
XRow(sel, n) == [j \in 1..n |-> XVal(sel, j)]
EmbRows == <<<<1, 0>>, <<1, 1>>, <<-1, -1>>, <<0, 1>>, <<1, -2>>>>
EmbRow(sel, n) == [j \in 1..n |-> IF j <= 2 THEN EmbRows[((sel - 1) % Len(EmbRows)) + 1][j] ELSE 0]

Config(layer, w, size, stride, flag, seed) ==
    [layer |-> layer, world_size |-> w, size |-> size, stride |-> stride,
     flag |-> flag, seed |-> seed]

\* the configurations: the embeddings take no stride and no flag, the mlp
\* chain fixes both flags
Configs ==
    {Config(layer, w, size, 1, FALSE, seed) :
        layer \in {"vocab", "pemb"}, w \in 1..MaxWorld, size \in 1..MaxDim, seed \in Seeds}
    \cup
    {Config(k[1], w, size, stride, k[2], seed) :
        k \in ({"col", "row", "arc"} \X BOOLEAN) \cup {<<"mlp", TRUE>>},
        w \in 1..MaxWorld, size \in 1..MaxDim, stride \in 1..MaxStride, seed \in Seeds}

StartState(c) ==
    /\ cfg = c
    /\ pc = [r \in 0..(c.world_size - 1) |-> "new"]
    /\ todo = [r \in 0..(c.world_size - 1) |-> Chain(c.layer)]
    /\ err = [r \in 0..(c.world_size - 1) |-> ""]
    /\ attr = [r \in 0..(c.world_size - 1) |-> [l \in LayerKinds |-> Unbuilt]]
    /\ heap = [r \in 0..(c.world_size - 1) |-> [s \in Slots |-> NONE]]
    /\ prog = [r \in 0..(c.world_size - 1) |-> Chain(c.layer)]
    /\ at = [r \in 0..(c.world_size - 1) |-> "enter"]
    /\ sent = [r \in 0..(c.world_size - 1) |-> NoMsg]
    /\ recv = [r \in 0..(c.world_size - 1) |-> NONE]
    /\ calls = [r \in 0..(c.world_size - 1) |-> <<>>]
    /\ outs = [r \in 0..(c.world_size - 1) |-> <<>>]
    /\ updated = FALSE
    /\ fed = FALSE

Init == \E c \in Configs : StartState(c)
InitOf(layer) == \E c \in Configs : c.layer = layer /\ StartState(c)

-----------------------------------------------------------------------------
(* Construction: rank r runs the __init__ of the next layer of its chain   *)

Constructing(r, layer) ==
    pc[r] = "new" /\ todo[r] # <<>> /\ Head(todo[r]) = layer

Built(r, layer, res, buffers) ==
    /\ attr' = [attr EXCEPT ![r][layer] =
                   [per_partition |-> res.per_partition, first |-> res.first,
                    last |-> res.last, alloc |-> res.alloc]]
    /\ err' = [err EXCEPT ![r] = IF res.status = "ok" THEN "" ELSE res.status]
    /\ pc' = [pc EXCEPT ![r] =
                 IF res.status # "ok" THEN "error"
                 ELSE IF Len(todo[r]) = 1 THEN "ready" ELSE "new"]
    /\ todo' = [todo EXCEPT ![r] = Tail(@)]
    /\ heap' = [heap EXCEPT ![r] =
                   [s \in Slots |-> IF s \in DOMAIN buffers THEN buffers[s] ELSE heap[r][s]]]
    /\ UNCHANGED <<cfg, prog, at, sent, recv, calls, outs, updated, fed>>

VocabInit(r) ==
    /\ Constructing(r, "vocab")
    /\ LET res == VocabParallelEmbedding_init(cfg.size, FixedDim, cfg.seed, r, cfg.world_size)
       IN Built(r, "vocab", res, [s \in {"vocab.weight"} |-> res.weight])

PEmbInit(r) ==
    /\ Constructing(r, "pemb")
    /\ LET res == ParallelEmbedding_init(FixedDim, cfg.size, cfg.seed, r, cfg.world_size)
       IN Built(r, "pemb", res, [s \in {"pemb.weight"} |-> res.weight])

ColInit(r) ==
    /\ Constructing(r, "col")
    /\ LET res == ColumnParallelLinear_init(FixedDim, cfg.size, cfg.seed, cfg.stride, r, cfg.world_size)
       IN Built(r, "col", res,
                [s \in {"col.weight", "col.bias"} |->
                    IF s = "col.weight" THEN res.weight ELSE res.bias])

RowInit(r) ==
    /\ Constructing(r, "row")
    /\ LET res == RowParallelLinear_init(cfg.size, FixedDim, cfg.seed, cfg.stride, r, cfg.world_size)
       IN Built(r, "row", res,
                [s \in {"row.weight", "row.bias"} |->
                    IF s = "row.weight" THEN res.weight ELSE res.bias])

ArcInit(r) ==
    /\ Constructing(r, "arc")
    /\ LET res == ArcfaceColumnParallelLinear_init(FixedDim, cfg.size, cfg.seed, cfg.stride, r, cfg.world_size)
       IN Built(r, "arc", res,
                [s \in {"arc.weight", "arc.cos_m", "arc.sin_m", "arc.mm", "arc.threshold"} |->
                    CASE s = "arc.weight" -> res.weight
                      [] s = "arc.cos_m" -> <<cos_m>>
                      [] s = "arc.sin_m" -> <<sin_m>>
                      [] s = "arc.mm" -> <<mm>>
                      [] s = "arc.threshold" -> <<threshold>>])

-----------------------------------------------------------------------------
(* The caller: the optimizer and the data loader *)

TokenIds(c) ==
    IF c.layer = "vocab" THEN (0 - 1)..(c.size + 1) ELSE 0..(FixedDim - 1)

\* the batches the caller may hand to the ranks
Batches(c) ==
    CASE c.layer \in {"vocab", "pemb"} ->
            {[sel |-> 1, ids |-> <<t, u>>, labels |-> NONE] :
                t \in TokenIds(c), u \in TokenIds(c)}
      [] c.layer = "arc" ->
            {[sel |-> sel, ids |-> NONE, labels |-> lab] :
                sel \in InputSel, lab \in [1..c.world_size -> (0 - 1)..c.size]}
      [] OTHER -> {[sel |-> sel, ids |-> NONE, labels |-> NONE] : sel \in InputSel}

\* the input tensor of rank r: the same on every rank, except for the input of a
\* row-parallel layer that is already split and for the margin head's samples
InputOf(c, r, b) ==
    CASE c.layer \in {"vocab", "pemb"} -> b.ids
      [] c.layer = "row" /\ c.flag ->
            LET p == c.size \div c.world_size
            IN <<[k \in 1..p |-> XVal(b.sel, r * p + k)]>>
      [] c.layer = "row" /\ ~c.flag -> <<XRow(b.sel, c.size)>>
      [] c.layer = "arc" -> <<EmbRow(b.sel + r, FixedDim)>>
      [] OTHER -> <<XRow(b.sel, FixedDim)>>

AllReady == \A r \in Ranks : pc[r] = "ready"

Feed ==
    /\ ~fed
    /\ AllReady
    /\ \E b \in Batches(cfg) :
          heap' = [r \in Ranks |->
                      [heap[r] EXCEPT !["input_"] = InputOf(cfg, r, b),
                                      !["input_labels"] =
                                          IF cfg.layer = "arc" THEN <<b.labels[r + 1]>> ELSE NONE]]
    /\ fed' = TRUE
    /\ UNCHANGED <<cfg, pc, todo, err, attr, prog, at, sent, recv, calls, outs, updated>>

\* an optimizer step before the forward calls: the biases leave zero
Update ==
    /\ ~updated
    /\ ~fed
    /\ AllReady
    /\ cfg.layer \in {"col", "row", "mlp"}
    /\ heap' = [r \in Ranks |->
                   [heap[r] EXCEPT
                       !["col.bias"] = [k \in 1..Len(@) |-> 1 + r * Len(@) + k],
                       !["row.bias"] = [o \in 1..Len(@) |-> 10 * o]]]
    /\ updated' = TRUE
    /\ UNCHANGED <<cfg, pc, todo, err, attr, prog, at, sent, recv, calls, outs, fed>>

-----------------------------------------------------------------------------
(* Forward: a rank runs its forward up to the next collective, where it    *)
(* blocks until every rank has entered the same collective.                *)

Running(r, layer) ==
    /\ fed
    /\ Head(prog[r]) = layer
    /\ pc[r] = "run" \/ (pc[r] = "ready" /\ Len(outs[r]) < MaxCalls)

\* the argument the caller passes to the running layer
Arg(r) ==
    IF cfg.layer = "mlp" /\ Head(prog[r]) = "row" THEN heap[r]["ret"] ELSE heap[r]["input_"]

Post(r, op, data, next, h) ==
    /\ pc' = [pc EXCEPT ![r] = "wait"]
    /\ sent' = [sent EXCEPT ![r] = [op |-> op, data |-> data]]
    /\ at' = [at EXCEPT ![r] = next]
    /\ heap' = [heap EXCEPT ![r] = h]
    /\ calls' = [calls EXCEPT ![r] = Append(@, op)]
    /\ recv' = [recv EXCEPT ![r] = NONE]
    /\ UNCHANGED <<cfg, todo, err, attr, prog, outs, updated, fed>>

\* the locals die with the frame; the value goes to the caller, who passes it
\* to the next layer of the chain or keeps it
Return(r, value, h) ==
    LET kept == [s \in Slots |-> IF s \in Persistent THEN h[s] ELSE NONE]
        last == Len(prog[r]) = 1
    IN /\ prog' = [prog EXCEPT ![r] = IF last THEN Chain(cfg.layer) ELSE Tail(@)]
       /\ pc' = [pc EXCEPT ![r] = IF last THEN "ready" ELSE "run"]
       /\ heap' = [heap EXCEPT ![r] = IF last THEN kept ELSE Put(kept, "ret", value)]
       /\ outs' = [outs EXCEPT ![r] = IF last THEN Append(@, value) ELSE @]
       /\ at' = [at EXCEPT ![r] = "enter"]
       /\ recv' = [recv EXCEPT ![r] = NONE]
       /\ UNCHANGED <<cfg, todo, err, attr, sent, calls, updated, fed>>

\* t - c, a new tensor
SubScalar(t, c) == [i \in 1..Len(t) |-> t[i] - c]

\* a slip in lines 109 and 432: src -= c in place, dst bound to the same tensor
CloneSub_inplace(h, dst, src, c) ==
    Put(Put(h, src, SubScalar(h[src], c)), dst, SubScalar(h[src], c))

\* lines 109 and 432: dst = src.clone() - c, which leaves src as it was
CloneSub(h, dst, src, c) == Put(h, dst, SubScalar(h[src], c))

\* t[mask] = v
MaskedFill(t, mask, v) == [i \in 1..Len(t) |-> IF mask[i] THEN v ELSE t[i]]

\* t[mask]
RECURSIVE MaskedSelect(_, _)
MaskedSelect(t, mask) ==
    IF t = <<>> THEN <<>>
    ELSE (IF Head(mask) THEN <<Head(t)>> ELSE <<>>) \o MaskedSelect(Tail(t), Tail(mask))

\* lines 106-107
VocabInputMask(input_, vocab_start_index, vocab_end_index) ==
    [i \in 1..Len(input_) |->
        (input_[i] < vocab_start_index) \/ (input_[i] >= vocab_end_index)]

\* a slip in line 117: the masked rows are left as looked up
ZeroMaskedRows_skipped(output_parallel, input_mask) == output_parallel

\* line 117: output_parallel[input_mask, :] = 0.0
ZeroMaskedRows(output_parallel, input_mask) ==
    [i \in 1..Len(output_parallel) |->
        IF input_mask[i] THEN Zeros(Len(output_parallel[i])) ELSE output_parallel[i]]

\* VocabParallelEmbedding.forward, lines 104-120
VocabForward(r) ==
    /\ Running(r, "vocab")
    /\ LET h == heap[r]
           a == attr[r]["vocab"]
       IN IF at[r] = "enter"
          THEN LET input_mask == VocabInputMask(h["input_"], a.first, a.last)
                   h1 == CloneSub(h, "masked_input", "input_", a.first)
                   h2 == Put(h1, "masked_input", MaskedFill(h1["masked_input"], input_mask, 0))
                   h3 == Put(h2, "output_parallel",
                             Embedding(h2["masked_input"], h2["vocab.weight"]))
                   h4 == Put(h3, "output_parallel",
                             ZeroMaskedRows(h3["output_parallel"], input_mask))
               IN Post(r, "reduce", h4["output_parallel"], "reduced", h4)
          ELSE Return(r, recv[r], h)

\* ParallelEmbedding.forward, lines 162-169
PEmbForward(r) ==
    /\ Running(r, "pemb")
    /\ LET h == heap[r]
       IN CASE at[r] = "enter" -> Post(r, "copy", h["input_"], "copied", h)
            [] at[r] = "copied" ->
                  LET h1 == Put(h, "input_parallel", recv[r])
                      h2 == Put(h1, "output_parallel",
                                Embedding(h1["input_parallel"], h1["pemb.weight"]))
                  IN Post(r, "gather", h2["output_parallel"], "gathered", h2)
            [] OTHER -> Return(r, recv[r], h)

\* ColumnParallelLinear.forward, lines 227-237
ColForward(r) ==
    /\ Running(r, "col")
    /\ LET h == heap[r]
       IN CASE at[r] = "enter" -> Post(r, "copy", Arg(r), "copied", h)
            [] at[r] = "copied" ->
                  LET h1 == Put(h, "input_parallel", recv[r])
                      h2 == Put(h1, "output_parallel",
                                Linear(h1["input_parallel"], h1["col.weight"], h1["col.bias"]))
                  IN IF gather_output
                     THEN Post(r, "gather", h2["output_parallel"], "gathered", h2)
                     ELSE Return(r, h2["output_parallel"], h2)
            [] OTHER -> Return(r, recv[r], h)

\* a slip in line 307: the bias added to every rank's partial product
RowLinear_biased(r, h, input_parallel) ==
    LET h1 == Put(h, "input_parallel", input_parallel)
        h2 == Put(h1, "output_parallel",
                  Linear(h1["input_parallel"], h1["row.weight"], h1["row.bias"]))
    IN Post(r, "reduce", h2["output_parallel"], "reduced", h2)

\* lines 306-309: the local product, handed to the reduction
RowLinear(r, h, input_parallel) ==
    LET h1 == Put(h, "input_parallel", input_parallel)
        h2 == Put(h1, "output_parallel", Linear(h1["input_parallel"], h1["row.weight"], NONE))
    IN Post(r, "reduce", h2["output_parallel"], "reduced", h2)

\* RowParallelLinear.forward, lines 300-314
RowForward(r) ==
    /\ Running(r, "row")
    /\ LET h == heap[r]
       IN CASE at[r] = "enter" ->
                  IF input_is_parallel THEN RowLinear(r, h, Arg(r))
                  ELSE Post(r, "scatter", Arg(r), "scattered", h)
            [] at[r] = "scattered" -> RowLinear(r, h, recv[r])
            [] OTHER ->
                  IF h["row.bias"] # NONE
                  THEN Return(r, AddBias(recv[r], h["row.bias"]), h)
                  ELSE Return(r, recv[r], h)

\* a slip in line 430: the first class of the range is not owned
ArcLabelMask_strict(input_labels, vocab_start_index, vocab_end_index) ==
    [i \in 1..Len(input_labels) |->
        (vocab_start_index < input_labels[i]) /\ (input_labels[i] < vocab_end_index)]

\* lines 430-431
ArcLabelMask(input_labels, vocab_start_index, vocab_end_index) ==
    [i \in 1..Len(input_labels) |->
        (vocab_start_index <= input_labels[i]) /\ (input_labels[i] < vocab_end_index)]

\* t[rows, cols] with 0-based index vectors
IndexGet(t, rows, cols) == [k \in 1..Len(rows) |-> t[rows[k] + 1][cols[k] + 1]]

\* t[rows, cols] = vals
IndexPut(t, rows, cols, vals) ==
    [i \in 1..Len(t) |->
        [j \in 1..Len(t[i]) |->
            IF \E k \in 1..Len(rows) : rows[k] + 1 = i /\ cols[k] + 1 = j
            THEN vals[CHOOSE k \in 1..Len(rows) : rows[k] + 1 = i /\ cols[k] + 1 = j]
            ELSE t[i][j]]]

\* lines 440-443: cos(theta + m), or cos(theta) - mm at or below the threshold
MarginCos(cos_theta_valid, b_cos_m, b_sin_m, b_mm, b_threshold) ==
    [k \in 1..Len(cos_theta_valid) |->
        LET c == cos_theta_valid[k]
        IN IF c <= b_threshold THEN c - b_mm
           ELSE (c * b_cos_m - Isqrt(ONE * ONE - c * c) * b_sin_m) \div ONE]

\* t *= c
MulScalar(t, c) == [i \in 1..Len(t) |-> [j \in 1..Len(t[i]) |-> t[i][j] * c]]

\* a slip in line 449: a rank that owns no label of the batch skips the gather
ArcGathers_if_owner(flag, row_idx) == flag /\ row_idx # <<>>

\* line 449: whether this rank gathers its logits
ArcGathers(flag, row_idx) == flag

\* a slip in line 426: the gathered labels bound to another name, so that
\* line 454 returns the caller's labels
ArcReturnedLabels_local(h) == h["input_labels"]

\* lines 426 and 454: input_labels names the gathered labels when it is returned
ArcReturnedLabels(h) == h["gathered_labels"]

\* ArcfaceColumnParallelLinear.forward, lines 422-454.  Each local of lines
\* 427-448 is bound once, in program order, before the next line reads it.
ArcForward(r) ==
    /\ Running(r, "arc")
    /\ LET h == heap[r]
           a == attr[r]["arc"]
       IN CASE at[r] = "enter" -> Post(r, "gather_batch", h["input_"], "gathered_x", h)
            [] at[r] = "gathered_x" ->
                  LET h1 == Put(h, "input_embedding", recv[r])
                  IN Post(r, "gather_batch", h1["input_labels"], "gathered_y", h1)
            [] at[r] = "gathered_y" ->
                  \E hg \in {Put(h, "gathered_labels", recv[r])} :
                  \E idx \in {[i \in 1..Len(hg["input_embedding"]) |-> i - 1]} :
                  \E label_inrange_mask \in
                         {ArcLabelMask(hg["gathered_labels"], a.first, a.last)} :
                  \E h0 \in {CloneSub(hg, "masked_valid_label", "gathered_labels", a.first)} :
                  \E row_idx \in {MaskedSelect(idx, label_inrange_mask)} :
                  \E valid_label_idx \in
                         {MaskedSelect(h0["masked_valid_label"], label_inrange_mask)} :
                  \E weight \in {Normalize(h0["arc.weight"])} :
                  \E logits \in {Linear(h0["input_embedding"], weight, h0["arc.bias"])} :
                  \E h1 \in {Put(h0, "cos_theta", Clamp(logits))} :
                  \E cos_theta_valid \in {IndexGet(h1["cos_theta"], row_idx, valid_label_idx)} :
                  \E h2 \in {Put(h1, "cos_theta_m",
                                 MarginCos(cos_theta_valid, h1["arc.cos_m"][1],
                                           h1["arc.sin_m"][1], h1["arc.mm"][1],
                                           h1["arc.threshold"][1]))} :
                  \E h3 \in {Put(h2, "cos_theta",
                                 IndexPut(h2["cos_theta"], row_idx, valid_label_idx,
                                          h2["cos_theta_m"]))} :
                  \E h4 \in {Put(h3, "cos_theta", MulScalar(h3["cos_theta"], scalar))} :
                     IF ArcGathers(gather_output, row_idx)
                     THEN Post(r, "gather", h4["cos_theta"], "gathered", h4)
                     ELSE Return(r, <<h4["cos_theta"], ArcReturnedLabels(h4)>>, h4)
            [] OTHER -> Return(r, <<recv[r], ArcReturnedLabels(h)>>, h)

-----------------------------------------------------------------------------
(* mpu/mappings.py: the collectives.  Each completes once every rank of    *)
(* the group has entered it, and then releases every rank.                 *)

AllIn(op) == \A r \in Ranks : pc[r] = "wait" /\ sent[r].op = op

Sent == [q \in 1..cfg.world_size |-> sent[q - 1].data]

Release(result) ==
    /\ recv' = [r \in Ranks |-> result[r]]
    /\ pc' = [r \in Ranks |-> "run"]
    /\ sent' = [r \in Ranks |-> NoMsg]
    /\ UNCHANGED <<cfg, todo, err, attr, heap, prog, at, calls, outs, updated, fed>>

\* copy_to_model_parallel_region
Copy == AllIn("copy") /\ Release([r \in Ranks |-> sent[0].data])

\* gather_from_model_parallel_region: concatenation along the last dimension
Gather == AllIn("gather") /\ Release([r \in Ranks |-> Cat(Sent, 1)])

\* gather_from_model_parallel_region_align_target_dim: along the batch dimension
GatherBatch == AllIn("gather_batch") /\ Release([r \in Ranks |-> Cat(Sent, 0)])

\* reduce_from_model_parallel_region: element-wise sum
Reduce == AllIn("reduce") /\ Release([r \in Ranks |-> SumMat(Sent)])

\* scatter_to_model_parallel_region: each rank keeps its slice of the last dimension
Scatter ==
    AllIn("scatter") /\
    Release([r \in Ranks |-> split_tensor_along_last_dim(sent[r].data, cfg.world_size)[r + 1]])

-----------------------------------------------------------------------------
(* _initialize_affine_weight on its own: a shard allocated with the        *)
(* declared per_partition_size along partition_dim, and arguments that     *)
(* need not agree with each other.  cfg.size is the global size along the  *)
(* partition dimension, cfg.per_partition_size the declared shard size.    *)

AffineArgs ==
    [layer : {"affine"}, world_size : 1..MaxWorld, size : 1..MaxDim,
     per_partition_size : 1..MaxDim, partition_dim : {0, 1},
     stride : 1..MaxStride, seed : Seeds, flag : {FALSE}]

InitAffine == \E c \in AffineArgs : StartState(c)

AffineCall(r) ==
    /\ Constructing(r, "affine")
    /\ LET output_size == IF cfg.partition_dim = 0 THEN cfg.size ELSE FixedDim
           input_size == IF cfg.partition_dim = 0 THEN FixedDim ELSE cfg.size
           shape == IF cfg.partition_dim = 0
                    THEN <<cfg.per_partition_size, input_size>>
                    ELSE <<output_size, cfg.per_partition_size>>
           aff == _initialize_affine_weight(shape, output_size, input_size,
                      cfg.per_partition_size, cfg.partition_dim, cfg.seed,
                      cfg.stride, r, cfg.world_size)
       IN Built(r, "affine",
                [status |-> aff.status, alloc |-> shape,
                 per_partition |-> cfg.per_partition_size, first |-> 0, last |-> 0],
                [s \in {"weight"} |-> aff.weight])

NextAffine == \E r \in Ranks : AffineCall(r)

SpecAffine == InitAffine /\ [][NextAffine]_vars

-----------------------------------------------------------------------------
(* Specifications *)

Next ==
    \/ \E r \in Ranks : VocabInit(r)
    \/ \E r \in Ranks : PEmbInit(r)
    \/ \E r \in Ranks : ColInit(r)
    \/ \E r \in Ranks : RowInit(r)
    \/ \E r \in Ranks : ArcInit(r)
    \/ Update
    \/ Feed
    \/ \E r \in Ranks : VocabForward(r)
    \/ \E r \in Ranks : PEmbForward(r)
    \/ \E r \in Ranks : ColForward(r)
    \/ \E r \in Ranks : RowForward(r)
    \/ \E r \in Ranks : ArcForward(r)
    \/ Copy
    \/ Gather
    \/ GatherBatch
    \/ Reduce
    \/ Scatter

Spec == Init /\ [][Next]_vars

\* one step of rank r's process
Forward(r) ==
    /\ r \in Ranks
    /\ VocabForward(r) \/ PEmbForward(r) \/ ColForward(r) \/ RowForward(r) \/ ArcForward(r)

Collective == Copy \/ Gather \/ GatherBatch \/ Reduce \/ Scatter

\* every rank's process keeps running, the caller feeds the batch, and a
\* collective every rank has entered completes
FairSpec ==
    /\ Spec
    /\ \A r \in 0..(MaxWorld - 1) : WF_vars(Forward(r))
    /\ WF_vars(Collective)
    /\ WF_vars(Feed)

\* the layers on their own
NextVocab ==
    \/ \E r \in Ranks : VocabInit(r)
    \/ Feed
    \/ \E r \in Ranks : VocabForward(r)
    \/ Reduce

SpecVocab == InitOf("vocab") /\ [][NextVocab]_vars

NextCol ==
    \/ \E r \in Ranks : ColInit(r)
    \/ Update
    \/ Feed
    \/ \E r \in Ranks : ColForward(r)
    \/ Copy
    \/ Gather

SpecCol == InitOf("col") /\ [][NextCol]_vars

NextRow ==
    \/ \E r \in Ranks : RowInit(r)
    \/ Update
    \/ Feed
    \/ \E r \in Ranks : RowForward(r)
    \/ Scatter
    \/ Reduce

SpecRow == InitOf("row") /\ [][NextRow]_vars

NextMlp ==
    \/ \E r \in Ranks : ColInit(r)
    \/ \E r \in Ranks : RowInit(r)
    \/ Update
    \/ Feed
    \/ \E r \in Ranks : ColForward(r)
    \/ \E r \in Ranks : RowForward(r)
    \/ Copy
    \/ Reduce

SpecMlp == InitOf("mlp") /\ [][NextMlp]_vars

NextArc ==
    \/ \E r \in Ranks : ArcInit(r)
    \/ Feed
    \/ \E r \in Ranks : ArcForward(r)
    \/ GatherBatch
    \/ Gather

SpecArc == InitOf("arc") /\ [][NextArc]_vars

-----------------------------------------------------------------------------
(* Reference values the claims compare the layers with *)

\* every rank's construction is over and none raised
AllBuilt == \A r \in Ranks : pc[r] \notin {"new", "error"}

\* per-partition size and per-stride chunk size of the partitioned dimension
PerPartition == cfg.size \div cfg.world_size
PerStride == PerPartition \div cfg.stride

\* the master index (1-based) behind position j (1-based) of the rank-order
\* concatenation of the shards: position j is element k of rank r's shard,
\* which lies in that rank's chunk number k div PerStride, master chunk
\* r + (k div PerStride) * world_size
MasterIndex(j) ==
    IF cfg.world_size = 1 \/ cfg.stride = 1 THEN j
    ELSE LET r == (j - 1) \div PerPartition
             k == (j - 1) % PerPartition
         IN (r + (k \div PerStride) * cfg.world_size) * PerStride + (k % PerStride) + 1

\* the rank-order concatenation of the column-parallel bias shards
ColBiasCat == CatVec([q \in 1..cfg.world_size |-> heap[q - 1]["col.bias"]])

\* the master weight of a (rows x cols) layer built from the shared seed
Master(rows, cols) == InitMethod(cfg.seed, rows, cols)

\* the rows of m taken in the order idx(1), idx(2), ...
PermuteRows(m, idx(_)) == [j \in 1..Len(m) |-> m[idx(j)]]
PermuteCols(m, idx(_)) == [i \in 1..Len(m) |-> [j \in 1..Len(m[i]) |-> m[i][idx(j)]]]

Returned(r) == outs[r] # <<>>
LastOut(r) == outs[r][Len(outs[r])]

-----------------------------------------------------------------------------
(* C1: ColumnParallelLinear with gather_output=True *)

IsGatheredCol == cfg.layer = "col" /\ cfg.flag

\* C1 as stated: on every rank the gathered output is x @ W^T + b with W the
\* master weight and b the rank-order concatenation of the bias shards, for
\* every world size and every stride: output column j is x times master row j.
C1_MasterOrderEveryStride ==
    \A r \in Ranks :
        (IsGatheredCol /\ Returned(r)) =>
            LastOut(r) = Linear(heap[r]["input_"], Master(cfg.size, FixedDim), ColBiasCat)

\* C1 amended: the gathered output column j is x times master row
\* MasterIndex(j) plus entry j of the concatenated bias shards; this is master
\* row j, hence x @ W^T + b, exactly when the stride is 1 or the world size is 1.
C1_GatheredIsShardOrder ==
    \A r \in Ranks :
        (IsGatheredCol /\ Returned(r)) =>
            /\ LastOut(r) = Linear(heap[r]["input_"],
                                   PermuteRows(Master(cfg.size, FixedDim), MasterIndex),
                                   ColBiasCat)
            /\ (cfg.stride = 1 \/ cfg.world_size = 1) =>
                   LastOut(r) = Linear(heap[r]["input_"], Master(cfg.size, FixedDim), ColBiasCat)

C1_Witness ==
    \E r \in Ranks :
        /\ IsGatheredCol /\ Returned(r) /\ updated
        /\ cfg.world_size = 2 /\ cfg.stride = 2 /\ cfg.size = 4

-----------------------------------------------------------------------------
(* C2: RowParallelLinear *)

\* the full input: the caller's tensor, or the rank-order concatenation of the
\* slices the caller hands to the ranks when input_is_parallel
RowInput(r) ==
    IF cfg.flag THEN Cat([q \in 1..cfg.world_size |-> heap[q - 1]["input_"]], 1)
    ELSE heap[r]["input_"]

\* C2 as stated, for input_is_parallel=False: on every rank the output is
\* x @ W^T + b with W the master weight and the bias added once, the slice
\* scatter gives a rank pairing with the master columns of the rank's shard,
\* for every world size and every stride.
C2_MasterOrderEveryStride ==
    \A r \in Ranks :
        (cfg.layer = "row" /\ ~cfg.flag /\ Returned(r)) =>
            LastOut(r) = Linear(heap[r]["input_"], Master(FixedDim, cfg.size), heap[r]["row.bias"])

\* C2 amended: each rank's contribution to the reduction is the product of
\* its input slice with its weight shard, without bias; the output is the sum
\* of the contributions plus the full bias once; input feature j multiplies
\* master column MasterIndex(j), so the output is x @ W^T + b exactly when the
\* stride is 1 or the world size is 1.
C2_SumOfShardProductsPlusBiasOnce ==
    \A r \in Ranks :
        cfg.layer = "row" =>
            /\ (pc[r] = "wait" /\ sent[r].op = "reduce") =>
                   sent[r].data = Linear(heap[r]["input_parallel"], heap[r]["row.weight"], NONE)
            /\ Returned(r) =>
                   /\ LastOut(r) = Linear(RowInput(r),
                                          PermuteCols(Master(FixedDim, cfg.size), MasterIndex),
                                          heap[r]["row.bias"])
                   /\ (cfg.stride = 1 \/ cfg.world_size = 1) =>
                          LastOut(r) = Linear(RowInput(r), Master(FixedDim, cfg.size),
                                              heap[r]["row.bias"])

C2_Witness ==
    \E r \in Ranks :
        /\ cfg.layer = "row" /\ ~cfg.flag /\ Returned(r) /\ updated
        /\ cfg.world_size = 2 /\ cfg.stride = 1 /\ cfg.size = 4

-----------------------------------------------------------------------------
(* C3: VocabParallelEmbedding *)

InVocab(t) == 0 <= t /\ t < cfg.size

\* the ranks whose range holds token id t
VocabOwners(t) ==
    {q \in Ranks : attr[q]["vocab"].first <= t /\ t < attr[q]["vocab"].last}

\* C3: every id in [0, num_embeddings) is left unmasked by exactly one rank,
\* every other rank contributes a zero row, and the reduced row is row t of
\* the master table on every rank; an id outside the range (negative, or
\* >= num_embeddings) is matched by no rank and its reduced row is zero, so
\* local row 0, which the clamped lookup reads, never reaches the output.
C3_OneOwnerPerToken ==
    (cfg.layer = "vocab" /\ AllBuilt /\ fed) =>
        \A r \in Ranks :
            LET ids == heap[r]["input_"]
                table == Master(cfg.size, FixedDim)
            IN \A i \in 1..Len(ids) :
                /\ Cardinality(VocabOwners(ids[i])) = IF InVocab(ids[i]) THEN 1 ELSE 0
                /\ (pc[r] = "wait") =>
                       sent[r].data[i] = IF r \in VocabOwners(ids[i])
                                         THEN table[ids[i] + 1] ELSE Zeros(FixedDim)
                /\ Returned(r) =>
                       LastOut(r)[i] = IF InVocab(ids[i])
                                       THEN table[ids[i] + 1] ELSE Zeros(FixedDim)

C3_Witness ==
    /\ cfg.layer = "vocab" /\ cfg.world_size = 2 /\ cfg.size = 4
    /\ \A r \in Ranks : Returned(r) /\ heap[r]["input_"] = <<2, 4>>

-----------------------------------------------------------------------------
(* C4: ArcfaceColumnParallelLinear with gather_output=False *)

\* the gathered batch: every rank's samples and labels in rank order
AllEmbeddings == Cat([q \in 1..cfg.world_size |-> heap[q - 1]["input_"]], 0)
AllLabels == CatVec([q \in 1..cfg.world_size |-> heap[q - 1]["input_labels"]])

\* the clamped cosine of every sample with every class of rank r
PlainCos(r) == Clamp(Linear(AllEmbeddings, Normalize(heap[r]["arc.weight"]), NONE))

\* cos(theta + m) for the default margin, with the fallback at the threshold
MarginOf(c) ==
    IF c <= 0 - cos_m THEN c - mm
    ELSE (c * cos_m - Isqrt(ONE * ONE - c * c) * sin_m) \div ONE

\* entry (i, j) of rank r is the true class of sample i
IsTrueClass(r, i, j) ==
    /\ attr[r]["arc"].first <= AllLabels[i]
    /\ AllLabels[i] < attr[r]["arc"].last
    /\ j = AllLabels[i] - attr[r]["arc"].first + 1

\* the entries of sample i, over all ranks, that differ from s * plain cosine
Adjusted(i) ==
    LET plain == [q \in Ranks |-> PlainCos(q)]
    IN {e \in Ranks \X (1..PerPartition) :
           LastOut(e[1])[1][i][e[2]] # scalar * plain[e[1]][i][e[2]]}

\* C4: on rank r entry (i, j) is s times the margin-adjusted cosine exactly
\* when label i lies in the rank's class range and j is its local index, and
\* s times the plain clamped cosine elsewhere; over all ranks a sample with a
\* label in [0, total_classes) has exactly one adjusted entry and a sample
\* with a label outside has none, and the forward returns.
C4_MarginOnlyAtOwnedLabel ==
    (cfg.layer = "arc" /\ ~cfg.flag) =>
        /\ \A r \in Ranks :
              Returned(r) =>
                  \E plain \in {PlainCos(r)} :
                  \A i \in 1..Len(AllLabels), j \in 1..PerPartition :
                      LastOut(r)[1][i][j] =
                          scalar * (IF IsTrueClass(r, i, j) THEN MarginOf(plain[i][j])
                                    ELSE plain[i][j])
        /\ (\A r \in Ranks : Returned(r)) =>
              \A i \in 1..Len(AllLabels) :
                  Cardinality(Adjusted(i)) = IF InVocab(AllLabels[i]) THEN 1 ELSE 0

C4_Witness ==
    /\ cfg.layer = "arc" /\ ~cfg.flag /\ cfg.world_size = 2 /\ cfg.size = 4
    /\ \A r \in Ranks : Returned(r)
    /\ AllLabels = <<2, 4>>

-----------------------------------------------------------------------------
(* C5: the order of the collectives *)

\* the collectives one forward call issues, by layer and flag
ExpectedCalls ==
    CASE cfg.layer = "vocab" -> <<"reduce">>
      [] cfg.layer = "pemb" -> <<"copy", "gather">>
      [] cfg.layer = "col" -> IF cfg.flag THEN <<"copy", "gather">> ELSE <<"copy">>
      [] cfg.layer = "row" -> IF cfg.flag THEN <<"reduce">> ELSE <<"scatter", "reduce">>
      [] cfg.layer = "arc" ->
            IF cfg.flag THEN <<"gather_batch", "gather_batch", "gather">>
            ELSE <<"gather_batch", "gather_batch">>
      [] OTHER -> <<"copy", "reduce">>

RECURSIVE Repeat(_, _)
Repeat(seq, n) == IF n = 0 THEN <<>> ELSE seq \o Repeat(seq, n - 1)

IsPrefix(a, b) == Len(a) <= Len(b) /\ SubSeq(b, 1, Len(a)) = a

CallsInOrder == \A r \in Ranks : IsPrefix(calls[r], Repeat(ExpectedCalls, MaxCalls))

AllCallsReturned == \A r \in Ranks : pc[r] = "ready" /\ Len(outs[r]) = MaxCalls

\* C5: every rank issues the same sequence of collectives in each forward, a
\* sequence fixed by the layer and its flags alone, and once the ranks have
\* their batch every forward call of every rank returns: no rank waits
\* forever at a collective.
C5_SameCollectivesAndReturn ==
    /\ [](CallsInOrder)
    /\ fed ~> AllCallsReturned

\* the ranks disagree on the ownership mask: rank 1 owns no label of the batch
C5_Witness ==
    /\ cfg.layer = "arc" /\ cfg.flag /\ cfg.world_size = 2 /\ cfg.size = 4
    /\ AllCallsReturned
    /\ AllLabels = <<0, 1>>

-----------------------------------------------------------------------------
(* C6: the index ranges *)

RangeOf(r) == attr[r][cfg.layer]
Indices(r) == RangeOf(r).first..(RangeOf(r).last - 1)
IsBuilt(r) == pc[r] \notin {"new", "error"}

\* C6: the ranges the embedding and the margin head compute have G / W
\* indices each, are pairwise disjoint and cover [0, G); computing the range
\* from the global size and from the per-partition size gives the same range.
C6_RangesTile ==
    cfg.layer \in {"vocab", "arc"} =>
        /\ \A r \in Ranks :
              IsBuilt(r) =>
                  /\ cfg.size % cfg.world_size = 0
                  /\ RangeOf(r).last - RangeOf(r).first = cfg.size \div cfg.world_size
                  /\ LET g == vocab_range_from_global_vocab_size(cfg.size, r, cfg.world_size)
                         p == vocab_range_from_per_partition_vocab_size(
                                  cfg.size \div cfg.world_size, r, cfg.world_size)
                     IN /\ <<g.first, g.last>> = <<RangeOf(r).first, RangeOf(r).last>>
                        /\ <<p.first, p.last>> = <<RangeOf(r).first, RangeOf(r).last>>
        /\ \A r, q \in Ranks :
              (IsBuilt(r) /\ IsBuilt(q) /\ r # q) => Indices(r) \cap Indices(q) = {}
        /\ AllBuilt => UNION {Indices(r) : r \in Ranks} = 0..(cfg.size - 1)

C6_Witness == cfg.layer = "arc" /\ cfg.world_size = 2 /\ cfg.size = 4 /\ AllBuilt

-----------------------------------------------------------------------------
(* C7: column-parallel into row-parallel *)

\* the bias of the dense first layer: the entry of master row j
DenseColBias == [j \in 1..cfg.size |-> ColBiasCat[CHOOSE i \in 1..cfg.size : MasterIndex(i) = j]]

\* the hidden features of the dense first layer
DenseHidden(r) == Linear(heap[r]["input_"], Master(cfg.size, FixedDim), DenseColBias)

\* C7: the chain returns, on every rank, (x @ W1^T + b1) @ W2^T + b2 for the
\* two master weights; the features rank r hands over are the hidden features
\* MasterIndex(r*p + 1 .. r*p + p), the ones its row-parallel shard multiplies.
C7_ChainEqualsDense ==
    \A r \in Ranks :
        cfg.layer = "mlp" =>
            /\ (pc[r] = "run" /\ Head(prog[r]) = "row" /\ at[r] = "enter") =>
                   \A k \in 1..PerPartition :
                       /\ heap[r]["ret"][1][k] =
                              DenseHidden(r)[1][MasterIndex(r * PerPartition + k)]
                       /\ \A o \in 1..FixedDim :
                              heap[r]["row.weight"][o][k] =
                                  Master(FixedDim, cfg.size)[o][MasterIndex(r * PerPartition + k)]
            /\ Returned(r) =>
                   LastOut(r) = Linear(DenseHidden(r), Master(FixedDim, cfg.size),
                                       heap[r]["row.bias"])

C7_Witness ==
    /\ cfg.layer = "mlp" /\ cfg.world_size = 2 /\ cfg.stride = 2 /\ cfg.size = 4
    /\ updated
    /\ \A r \in Ranks : Returned(r)

-----------------------------------------------------------------------------
(* C8: construction with a dimension the world size does not divide *)

PartitionDim(layer) == IF layer \in {"pemb", "row"} THEN 1 ELSE 0
WeightSlot(layer) ==
    CASE layer = "vocab" -> "vocab.weight" [] layer = "pemb" -> "pemb.weight"
      [] layer = "col" -> "col.weight" [] layer = "row" -> "row.weight"
      [] layer = "arc" -> "arc.weight" [] OTHER -> "weight"

ChainLayers == {Chain(cfg.layer)[n] : n \in 1..Len(Chain(cfg.layer))}

\* C8: when the world size does not divide the partitioned dimension every
\* constructor raises ConfigurationError with no shard allocated, and no
\* forward ever runs; a shard that is allocated has dimension / world_size
\* along the partition dimension, and so has every shard a forward runs on.
C8_NoRaggedShards ==
    \A r \in Ranks :
        /\ cfg.size % cfg.world_size # 0 =>
              /\ pc[r] \in {"new", "error"}
              /\ pc[r] = "error" => err[r] = "ConfigurationError"
              /\ \A l \in ChainLayers :
                    attr[r][l].alloc = NONE /\ heap[r][WeightSlot(l)] = NONE
              /\ calls[r] = <<>> /\ outs[r] = <<>>
        /\ \A l \in ChainLayers :
              attr[r][l].alloc # NONE =>
                  /\ cfg.size % cfg.world_size = 0
                  /\ attr[r][l].per_partition = cfg.size \div cfg.world_size
                  /\ attr[r][l].alloc[PartitionDim(l) + 1] = cfg.size \div cfg.world_size
        /\ pc[r] \in {"ready", "run", "wait"} =>
              \A l \in ChainLayers :
                  Size(heap[r][WeightSlot(l)], PartitionDim(l)) * cfg.world_size = cfg.size

C8_Witness ==
    /\ cfg.layer = "arc" /\ cfg.world_size = 2 /\ cfg.size = 3
    /\ \A r \in Ranks : pc[r] = "error" /\ err[r] = "ConfigurationError"

-----------------------------------------------------------------------------
(* C9: the shape of the shard _initialize_affine_weight leaves *)

Shape(t) == <<Len(t), Size(t, 1)>>

\* C9: _initialize_affine_weight never completes leaving a shard whose shape
\* differs from the allocated one (per_partition_size along the partition
\* dimension): chunks that do not fit end in a fatal error.
C9_MismatchIsFatal ==
    \A r \in Ranks :
        (cfg.layer = "affine" /\ pc[r] = "ready") =>
            Shape(heap[r]["weight"]) = attr[r]["affine"].alloc

-----------------------------------------------------------------------------
(* C10: forward keeps no state *)

\* C10: a forward step leaves every parameter, buffer and caller tensor of
\* every rank as it was, and the attributes set at construction; all values
\* a rank's forward calls return on the same input are equal.
C10_ForwardKeepsNoState ==
    [][\A r \in DOMAIN pc :
          /\ fed => \A s \in Persistent : heap'[r][s] = heap[r][s]
          /\ pc[r] # "new" => attr'[r] = attr[r]
          /\ \A n \in 1..Len(outs'[r]) : outs'[r][n] = outs'[r][1]]_vars

C10_Witness ==
    /\ cfg.layer = "arc" /\ cfg.world_size = 2 /\ cfg.size = 4
    /\ \A r \in Ranks : Len(outs[r]) = 2
    /\ AllLabels = <<3, 0>>

-----------------------------------------------------------------------------
(* C11: the chunks _initialize_affine_weight gives each rank *)

\* arguments that agree: a master dimension of world_size * per_partition_size
\* and a stride dividing per_partition_size, on more than one rank
AffineConsistent ==
    /\ cfg.layer = "affine" /\ cfg.world_size > 1
    /\ cfg.per_partition_size % cfg.stride = 0
    /\ cfg.size = cfg.world_size * cfg.per_partition_size

ChunkSize == cfg.per_partition_size \div cfg.stride

AffineMaster ==
    IF cfg.partition_dim = 0 THEN InitMethod(cfg.seed, cfg.size, FixedDim)
    ELSE InitMethod(cfg.seed, FixedDim, cfg.size)

\* element j (1-based) of t along dim: a row, or a column
Take(t, j, dim) == IF dim = 0 THEN t[j] ELSE [i \in 1..Len(t) |-> t[i][j]]

\* the master index (1-based) of element k (1-based) of rank r's shard
ShardIndex(r, k) ==
    (r + ((k - 1) \div ChunkSize) * cfg.world_size) * ChunkSize + ((k - 1) % ChunkSize) + 1

\* C11: with agreeing arguments the master splits into world_size * stride
\* contiguous chunks of per_partition_size / stride; the shard of rank r is
\* chunks r, r + W, ..., r + (s - 1) * W in increasing order (the slice
\* [r*p, (r+1)*p) for stride 1), has size p along the partition dimension,
\* and every master index lies in exactly one rank's shard.
C11_ShardIsStridedChunks ==
    AffineConsistent =>
        LET dim == cfg.partition_dim
            p == cfg.per_partition_size
            chunks == Split(AffineMaster, ChunkSize, dim)
        IN /\ Len(chunks) = cfg.world_size * cfg.stride
           /\ \A c \in 1..Len(chunks) :
                 /\ Size(chunks[c], dim) = ChunkSize
                 /\ chunks[c] = Slice(AffineMaster, (c - 1) * ChunkSize + 1, c * ChunkSize, dim)
           /\ \A r \in Ranks :
                 /\ pc[r] \in {"new", "ready"}
                 /\ pc[r] = "ready" =>
                       /\ Size(heap[r]["weight"], dim) = p
                       /\ heap[r]["weight"] =
                              Cat([c \in 1..cfg.stride |-> chunks[r + (c - 1) * cfg.world_size + 1]], dim)
                       /\ \A k \in 1..p :
                              Take(heap[r]["weight"], k, dim) =
                                  Take(AffineMaster, ShardIndex(r, k), dim)
                       /\ cfg.stride = 1 =>
                              heap[r]["weight"] = Slice(AffineMaster, r * p + 1, (r + 1) * p, dim)
           /\ \A j \in 1..cfg.size :
                 Cardinality({rk \in Ranks \X (1..p) : ShardIndex(rk[1], rk[2]) = j}) = 1

C11_Witness ==
    /\ AffineConsistent
    /\ cfg.world_size = 2 /\ cfg.per_partition_size = 2 /\ cfg.stride = 2
    /\ cfg.partition_dim = 1
    /\ \A r \in Ranks : pc[r] = "ready"

-----------------------------------------------------------------------------
(* C12: the labels the margin head returns *)

\* the logit of a sample for a class, from the plain cosine c of the pair
ExpectedLogit(c, is_true_class) == scalar * (IF is_true_class THEN MarginOf(c) ELSE c)

\* the logits rank r returns: its own classes, or with gather_output the
\* classes of all ranks in rank order
ExpectedLogits(r) ==
    LET plain == [q \in Ranks |-> PlainCos(q)]
        own(q, i, j) == ExpectedLogit(plain[q][i][j], IsTrueClass(q, i, j))
    IN [i \in 1..Len(AllLabels) |->
           IF cfg.flag
           THEN [c \in 1..cfg.size |->
                    own((c - 1) \div PerPartition, i, ((c - 1) % PerPartition) + 1)]
           ELSE [j \in 1..PerPartition |-> own(r, i, j)]]

\* C12: every rank's forward returns the rank-order concatenation of all
\* ranks' labels, the same on every rank and as long as the returned logits
\* have rows; row i of the logits is computed from gathered embedding i with
\* the margin decided by returned label i, with and without gather_output.
C12_ReturnsGatheredLabels ==
    cfg.layer = "arc" =>
        \A r \in Ranks :
            Returned(r) =>
                /\ LastOut(r)[2] = AllLabels
                /\ Len(LastOut(r)[2]) = Len(LastOut(r)[1])
                /\ Len(LastOut(r)[2]) = cfg.world_size * Len(heap[r]["input_labels"])
                /\ \A q \in Ranks : Returned(q) => LastOut(q)[2] = LastOut(r)[2]
                /\ LastOut(r)[1] = ExpectedLogits(r)

\* two ranks with different labels, both owned by rank 0, logits gathered
C12_Witness ==
    /\ cfg.layer = "arc" /\ cfg.flag /\ cfg.world_size = 2 /\ cfg.size = 4
    /\ \A r \in Ranks : Returned(r)
    /\ AllLabels = <<1, 0>>

====
